---- MODULE Spec2Model ----
(***************************************************************************)
(* Model of src/app.py: the PostgreSQL store behind DatabaseManager (the   *)
(* parse_sessions, profiles and profile_snapshots tables and the           *)
(* session_summary view), the DatabaseManager operations, and the          *)
(* SteamParser.parse_all_accounts ingestion run.                           *)
(*                                                                         *)
(* Tables are sets of rows.  Every DatabaseManager operation runs in one   *)
(* transaction (get_cursor): it commits as a whole or leaves the tables    *)
(* unchanged and raises.  An operation made of a single SQL statement is   *)
(* one action; get_or_create_profile and _init_db read first and write     *)
(* later, so other transactions may commit in between: they are two        *)
(* actions each.                                                           *)
(***************************************************************************)
EXTENDS Integers, Sequences, FiniteSets, TLC

\* ------------------------------------------------------------------ bounds

\* parse_sessions.id is SERIAL: the model stops opening sessions after this id.
MaxSessions == 2
\* profile_snapshots.id is SERIAL and is drawn by every INSERT .. ON CONFLICT:
\* the direct callers of save_profile_snapshot stop after this id (a run of
\* parse_all_accounts writes one snapshot per roster entry at most).
MaxSnapshotId == 3

\* ----------------------------------------------------------- input domains

Procs == {"w1", "w2"}

\* External identifiers (steam_id) that callers resolve.
SteamIds == {"A1", "A2"}

\* parse_time / datetime.now() values.
Times == {1, 2}

NULL == "NULL"

\* profile_data dictionaries as parse_account builds them (src/app.py:623-634);
\* the measurements are those of the spec's scenarios, the valuation split
\* into library_value + inventory_value.
P1 == [nickname |-> "n1", country |-> "RU", avatar |-> "a1", profile_url |-> "u1",
       steam_level |-> 5, games_count |-> 10, library_value |-> 80,
       inventory_value |-> 20, parsed_at |-> 1]
P2 == [nickname |-> "n2", country |-> "US", avatar |-> "a2", profile_url |-> "u2",
       steam_level |-> 3, games_count |-> 5, library_value |-> 40,
       inventory_value |-> 10, parsed_at |-> 1]
P3 == [nickname |-> "n3", country |-> "RU", avatar |-> "a3", profile_url |-> "u3",
       steam_level |-> 6, games_count |-> 12, library_value |-> 100,
       inventory_value |-> 20, parsed_at |-> 2]
ProfileData == {P1, P2, P3}


\* The roster: each entry is a profile URL
\* (https://steamcommunity.com/profiles/<17 digits>), kept as its path and its
\* digits.  The model keeps two of the six entries.
STEAM_ACCOUNTS == << [path |-> "profiles", name |-> "A1"],
                    [path |-> "profiles", name |-> "A2"] >>

\* extract_steam_id on a URL: the name behind /profiles/ or /id/ when it is
\* all digits, as it is for every roster entry (a vanity name is resolved over
\* the network and is no roster entry).
extract_steam_id(account) == account.name

\* The counts a caller hands to update_session_stats: up to the roster's size.
Counts == 0..Len(STEAM_ACCOUNTS)

\* dict.get(key, default)
Get(d, key, default) == IF key \in DOMAIN d THEN d[key] ELSE default

\* -------------------------------------------------------------------- state

VARIABLES
    dbUp,               \* psycopg2.connect succeeds (the store is reachable)
    schema,             \* the schema objects that exist in the database
    parse_sessions,     \* table parse_sessions: a set of rows
    profiles,           \* table profiles
    profile_snapshots,  \* table profile_snapshots
    session_seq,        \* last value of parse_sessions_id_seq
    profile_seq,        \* last value of profiles_id_seq
    snapshot_seq,       \* last value of profile_snapshots_id_seq
    pc,                 \* per caller: its position in the operation in progress
    frame,              \* per caller: the locals of the operation in progress
    got,                \* what the last completed call returned (a read) or
                        \* printed (_init_db)
    written,            \* history: per (session, profile), the rows proposed by
                        \* the committed save_profile_snapshot calls, in order
    finalized,          \* history: per session, the arguments of the last
                        \* committed update_session_stats that found the row
    handles             \* history: per steam_id, the handles returned by
                        \* get_or_create_profile and the data of the creating call

tables == <<parse_sessions, profiles, profile_snapshots>>
sequences == <<session_seq, profile_seq, snapshot_seq>>
store == <<schema, tables, sequences>>
history == <<written, finalized, handles>>
vars == <<dbUp, store, pc, frame, got, history>>

\* ------------------------------------------------------------------- schema

Tables == {"parse_sessions", "profiles", "profile_snapshots"}

\* create_tables_sql, statement by statement: the enum type and the tables,
TypeAndTables ==
    << [kind |-> "create_type_guarded", obj |-> "parse_status", on |-> {}],
       [kind |-> "create_table_if_not_exists", obj |-> "parse_sessions", on |-> {}],
       [kind |-> "create_table_if_not_exists", obj |-> "profiles", on |-> {}],
       [kind |-> "create_table_if_not_exists", obj |-> "profile_snapshots",
        on |-> {"parse_sessions", "profiles"}] >>

\* then the indexes, the trigger function, the triggers and the view.
IndexesTriggersView ==
    << [kind |-> "create_index_if_not_exists", obj |-> "idx_parse_sessions",
        on |-> {"parse_sessions"}],
       [kind |-> "create_index_if_not_exists", obj |-> "idx_profile_snapshots",
        on |-> {"profile_snapshots"}],
       [kind |-> "create_index_if_not_exists", obj |-> "idx_profiles",
        on |-> {"profiles"}],
       [kind |-> "create_or_replace", obj |-> "update_updated_at_column", on |-> {}],
       [kind |-> "drop_if_exists", obj |-> "update_parse_sessions_updated_at",
        on |-> {"parse_sessions"}],
       [kind |-> "create", obj |-> "update_parse_sessions_updated_at",
        on |-> {"parse_sessions", "update_updated_at_column"}],
       [kind |-> "drop_if_exists", obj |-> "update_profiles_updated_at",
        on |-> {"profiles"}],
       [kind |-> "create", obj |-> "update_profiles_updated_at",
        on |-> {"profiles", "update_updated_at_column"}],
       [kind |-> "drop_if_exists", obj |-> "session_summary", on |-> {}],
       [kind |-> "create", obj |-> "session_summary", on |-> Tables] >>

\* A script that drops the snapshot table before creating it, as the real one
\* does with the triggers and the view.
CreateTablesSqlDropFirst ==
    << [kind |-> "drop_if_exists", obj |-> "profile_snapshots", on |-> {}] >>
    \o TypeAndTables \o IndexesTriggersView

CreateTablesSql == TypeAndTables \o IndexesTriggersView

FullSchema == {CreateTablesSql[i].obj : i \in 1..Len(CreateTablesSql)}

\* One DDL statement on the transaction's view of the schema.  st.ok turns
\* FALSE when the statement raises; st.dropped collects the tables whose rows
\* a statement discarded.
ExecStatement(st, stmt) ==
    IF ~st.ok THEN st
    ELSE IF ~(stmt.on \subseteq st.objs) THEN [st EXCEPT !.ok = FALSE]
    ELSE CASE stmt.kind \in {"create_type_guarded", "create_table_if_not_exists",
                             "create_index_if_not_exists", "create_or_replace"} ->
                [st EXCEPT !.objs = @ \cup {stmt.obj}]
           [] stmt.kind = "drop_if_exists" ->
                [st EXCEPT !.objs = @ \ {stmt.obj},
                           !.dropped = @ \cup ({stmt.obj} \cap Tables \cap st.objs)]
           [] stmt.kind = "create" ->
                IF stmt.obj \in st.objs THEN [st EXCEPT !.ok = FALSE]
                ELSE [st EXCEPT !.objs = @ \cup {stmt.obj}]

RECURSIVE ExecScript(_, _, _)
ExecScript(st, script, i) ==
    IF i > Len(script) THEN st
    ELSE ExecScript(ExecStatement(st, script[i]), script, i + 1)

\* The columns a row trigger can assign: those of CREATE TABLE parse_sessions
\* and CREATE TABLE profiles end with updated_at and with last_updated.
TableColumns ==
    [parse_sessions |-> {"id", "parse_time", "parse_date", "parse_time_display",
                         "timestamp_str", "total_profiles", "successful_profiles",
                         "failed_profiles", "status", "created_at", "updated_at"},
     profiles |-> {"id", "steam_id", "nickname", "country", "avatar_url",
                   "steam_level", "profile_url", "first_seen", "last_updated"},
     profile_snapshots |-> {"id", "session_id", "profile_id", "steam_level",
                            "games_count", "library_value", "inventory_value",
                            "total_value", "parsed_at", "status", "error_message"}]

\* update_updated_at_column(): NEW.updated_at = CURRENT_TIMESTAMP.
TriggerAssigns == "updated_at"

\* The BEFORE UPDATE ... FOR EACH ROW triggers that the schema objs holds on a
\* table: the CREATE TRIGGER statements of the script naming it.
UpdateTriggers(objs, table) ==
    {st.obj : st \in {IndexesTriggersView[i] : i \in 1..Len(IndexesTriggersView)}}
    \cap {t \in objs : \E i \in 1..Len(IndexesTriggersView) :
            LET st == IndexesTriggersView[i]
            IN  /\ st.obj = t /\ st.kind = "create"
                /\ st.on = {table, "update_updated_at_column"}}

\* An UPDATE that changes a row of the table runs its triggers; PL/pgSQL
\* resolves NEW.updated_at when the function runs, and raises (SQLSTATE 42703,
\* record "new" has no field "updated_at") on a table without that column.
UpdateTriggerRaises(objs, table) ==
    UpdateTriggers(objs, table) # {} /\ TriggerAssigns \notin TableColumns[table]

\* A store that answers, whatever relations it holds.
UsableWhenReachable(rels) == dbUp

\* A relation can be used by a statement: the store answers and the relation
\* exists.
Usable(rels) == dbUp /\ rels \subseteq schema

\* ------------------------------------------------------------------- tables

SessionIds == 1..MaxSessions
\* profiles.id values a caller may hand in: every value profiles_id_seq can
\* reach (each caller draws at most one value per steam_id).
ProfileIds == 1..(Cardinality(SteamIds) * Cardinality(Procs))
Pairs == SessionIds \X ProfileIds

\* INSERT INTO parse_sessions (parse_time, ..., status) VALUES (.., 'pending'):
\* the counts take their column DEFAULT 0, and parse_date, which has no
\* default and is never assigned, is NULL.
NewSessionRow(id, parse_time) ==
    [id |-> id, parse_time |-> parse_time, parse_date |-> NULL,
     total_profiles |-> 0,
     successful_profiles |-> 0, failed_profiles |-> 0, status |-> "pending"]

\* A status CASE that needs more than one success.
StatusCaseOffByOne(successful) == IF successful > 1 THEN "success" ELSE "failed"

\* status = CASE WHEN %s > 0 THEN 'success' ELSE 'failed' END
StatusCase(successful) == IF successful > 0 THEN "success" ELSE "failed"

\* The UPDATE without its WHERE clause.
UpdateSessionRowsAll(rows, session_id, total, successful, failed) ==
    {[r EXCEPT !.total_profiles = total,
               !.successful_profiles = successful,
               !.failed_profiles = failed,
               !.status = IF successful > 0 THEN "success" ELSE "failed"]
     : r \in rows}

\* UPDATE parse_sessions SET ... WHERE id = %s
UpdateSessionRows(rows, session_id, total, successful, failed) ==
    {IF r.id = session_id
     THEN [r EXCEPT !.total_profiles = total,
                    !.successful_profiles = successful,
                    !.failed_profiles = failed,
                    !.status = StatusCase(successful)]
     ELSE r : r \in rows}

\* INSERT INTO profiles (steam_id, nickname, country, avatar_url, steam_level,
\* profile_url): profile_data.get(key) is None, SQL NULL, for a missing key.
NewProfileRow(id, steam_id, d) ==
    [id |-> id, steam_id |-> steam_id,
     nickname |-> Get(d, "nickname", NULL), country |-> Get(d, "country", NULL),
     avatar_url |-> Get(d, "avatar", NULL),
     steam_level |-> Get(d, "steam_level", NULL),
     profile_url |-> Get(d, "profile_url", NULL)]

\* UPDATE profiles SET nickname, country, avatar_url, steam_level, profile_url
\* WHERE id = %s: steam_id and id are not assigned.
UpdateProfileRows(rows, profile_id, d) ==
    {IF r.id = profile_id
     THEN NewProfileRow(r.id, r.steam_id, d)
     ELSE r : r \in rows}

\* The UNIQUE constraint on profiles.steam_id: the INSERT raises when a
\* committed row holds the same steam_id.
ProfileInsertAllowed(rows, steam_id) == \A r \in rows : r.steam_id # steam_id

\* An INSERT that also stores library_value + inventory_value as total_value.
ProposedSnapshotValued(id, session_id, profile_id, d, status, error, now) ==
    [id |-> id, session_id |-> session_id, profile_id |-> profile_id,
     steam_level |-> Get(d, "steam_level", 0),
     games_count |-> Get(d, "games_count", 0),
     library_value |-> Get(d, "library_value", 0),
     inventory_value |-> Get(d, "inventory_value", 0),
     total_value |-> Get(d, "library_value", 0) + Get(d, "inventory_value", 0),
     parsed_at |-> Get(d, "parsed_at", now),
     status |-> status, error_message |-> error]

\* The row save_profile_snapshot proposes for insertion (EXCLUDED):
\* total_value is not in the column list and takes its DEFAULT 0.
ProposedSnapshot(id, session_id, profile_id, d, status, error, now) ==
    [id |-> id, session_id |-> session_id, profile_id |-> profile_id,
     steam_level |-> Get(d, "steam_level", 0),
     games_count |-> Get(d, "games_count", 0),
     library_value |-> Get(d, "library_value", 0),
     inventory_value |-> Get(d, "inventory_value", 0),
     total_value |-> 0,
     parsed_at |-> Get(d, "parsed_at", now),
     status |-> status, error_message |-> error]

\* A conflict update that assigns the two values only.
ConflictUpdateValuesOnly(r, x) ==
    [r EXCEPT !.library_value = x.library_value,
              !.inventory_value = x.inventory_value]

\* A conflict update that forgets the status and error columns.
ConflictUpdateMeasuresOnly(r, x) ==
    [r EXCEPT !.steam_level = x.steam_level,
              !.games_count = x.games_count,
              !.library_value = x.library_value,
              !.inventory_value = x.inventory_value,
              !.parsed_at = x.parsed_at]

\* ON CONFLICT (session_id, profile_id) DO UPDATE SET ... = EXCLUDED....
ConflictUpdate(r, x) ==
    [r EXCEPT !.steam_level = x.steam_level,
              !.games_count = x.games_count,
              !.library_value = x.library_value,
              !.inventory_value = x.inventory_value,
              !.parsed_at = x.parsed_at,
              !.status = x.status,
              !.error_message = x.error_message]

Conflicts(r, x) == r.session_id = x.session_id /\ r.profile_id = x.profile_id

\* A plain INSERT into a table without the UNIQUE constraint.
UpsertPlainInsert(rows, x) == rows \cup {x}

\* INSERT ... ON CONFLICT (session_id, profile_id) DO UPDATE, under
\* UNIQUE(session_id, profile_id).
Upsert(rows, x) ==
    IF \E r \in rows : Conflicts(r, x)
    THEN {IF Conflicts(r, x) THEN ConflictUpdate(r, x) ELSE r : r \in rows}
    ELSE rows \cup {x}

\* The REFERENCES constraints of profile_snapshots.
ForeignKeysHold(x) ==
    /\ \E s \in parse_sessions : s.id = x.session_id
    /\ \E q \in profiles : q.id = x.profile_id

\* DELETE FROM parse_sessions WHERE id = %s, with ON DELETE CASCADE.
SessionsAfterDelete(rows, session_id) == {r \in rows : r.id # session_id}
\* The snapshot table without ON DELETE CASCADE on session_id (and without the
\* constraint that would then refuse the DELETE).
SnapshotsKeptOnDelete(rows, session_id) == rows

SnapshotsAfterDelete(rows, session_id) == {r \in rows : r.session_id # session_id}

\* --------------------------------------------------- the session_summary view

\* A nullable SQL value is a set: {} is NULL, {v} is the value v.
Coalesce(x, default) == IF x = {} THEN default ELSE CHOOSE v \in x : TRUE

RECURSIVE SumFn(_)
SumFn(f) ==
    IF DOMAIN f = {} THEN 0
    ELSE LET x == CHOOSE x \in DOMAIN f : TRUE
         IN  f[x] + SumFn([y \in DOMAIN f \ {x} |-> f[y]])

\* SUM(col): NULL over no non-null input.
SqlSum(f) == IF DOMAIN f = {} THEN {} ELSE {SumFn(f)}

\* AVG(col) in hundredths, rounded half up as the cast to NUMERIC(10,2) does.
SqlAvg(f) ==
    IF DOMAIN f = {} THEN {}
    ELSE LET n == Cardinality(DOMAIN f)
         IN  {(200 * SumFn(f) + n) \div (2 * n)}

\* The same joins written as inner joins: a session without snapshots has
\* no joined row.
JoinedRowsInner(ps) ==
    {[psnap |-> {sn}, p |-> {q}] :
        <<sn, q>> \in {x \in profile_snapshots \X profiles :
                          x[1].session_id = ps.id /\ x[1].profile_id = x[2].id}}

\* FROM parse_sessions ps LEFT JOIN profile_snapshots psnap ON ps.id =
\* psnap.session_id LEFT JOIN profiles p ON psnap.profile_id = p.id:
\* the joined rows of one session; a side that matched nothing is NULL.
JoinedRows(ps) ==
    LET snaps == {sn \in profile_snapshots : sn.session_id = ps.id}
        ProfilesOf(sn) == {q \in profiles : q.id = sn.profile_id}
    IN  IF snaps = {} THEN {[psnap |-> {}, p |-> {}]}
        ELSE UNION {IF ProfilesOf(sn) = {} THEN {[psnap |-> {sn}, p |-> {}]}
                    ELSE {[psnap |-> {sn}, p |-> {q}] : q \in ProfilesOf(sn)}
                    : sn \in snaps}

\* The stored total_value column in place of the sum of the two values.
StoredTotalValue(sn) == sn.total_value

\* psnap.library_value + psnap.inventory_value
BothValues(sn) == sn.library_value + sn.inventory_value

\* One row of session_summary: the GROUP BY group of session ps.
SummaryRow(ps) ==
    LET joined == JoinedRows(ps)
        withSnap == {j \in joined : j.psnap # {}}
        Snap(j) == CHOOSE sn \in j.psnap : TRUE
        games == [j \in withSnap |-> Snap(j).games_count]
        levels == [j \in withSnap |-> Snap(j).steam_level]
        library == [j \in withSnap |-> Snap(j).library_value]
        inventory == [j \in withSnap |-> Snap(j).inventory_value]
        both == [j \in withSnap |-> BothValues(Snap(j))]
    IN  [session_id |-> ps.id,
         parse_time |-> ps.parse_time,
         parse_date |-> ps.parse_date,
         total_profiles |-> ps.total_profiles,
         successful_profiles |-> ps.successful_profiles,
         failed_profiles |-> ps.failed_profiles,
         status |-> ps.status,
         countries_count |->
             Cardinality({q.country : q \in UNION {j.p : j \in joined}} \ {NULL}),
         total_games |-> Coalesce(SqlSum(games), 0),
         avg_level |-> Coalesce(SqlAvg(levels), 0),
         total_library_value |-> Coalesce(SqlSum(library), 0),
         total_inventory_value |-> Coalesce(SqlSum(inventory), 0),
         grand_total_value |-> Coalesce(SqlSum(both), 0)]

\* GROUP BY ps.id, ...: one row per session that has joined rows.
session_summary ==
    {SummaryRow(ps) : ps \in {x \in parse_sessions : JoinedRows(x) # {}}}

\* SELECT * FROM session_summary WHERE session_id = %s; fetchone(): the rows
\* (at most one) as a set, {} standing for None.
SessionById(session_id) == {r \in session_summary : r.session_id = session_id}

\* SELECT * FROM session_summary ORDER BY parse_time DESC LIMIT %s: the row
\* lists the query may return (rows of equal parse_time come in any order).
RECURSIVE Orderings(_)
Orderings(S) ==
    IF S = {} THEN {<< >>}
    ELSE UNION {{<<x>> \o rest : rest \in Orderings(S \ {x})} : x \in S}

SessionLists(limit) ==
    {SubSeq(q, 1, IF Len(q) < limit THEN Len(q) ELSE limit) :
        q \in {o \in Orderings(session_summary) :
                 \A i \in 1..Len(o) - 1 : o[i].parse_time >= o[i + 1].parse_time}}

\* SELECT p.*, ps.steam_level as snapshot_level, ... FROM profile_snapshots ps
\* JOIN profiles p ON ps.profile_id = p.id: one row of the result.
SessionProfileRow(sn, q) ==
    [id |-> q.id, steam_id |-> q.steam_id, nickname |-> q.nickname,
     country |-> q.country, avatar_url |-> q.avatar_url,
     steam_level |-> q.steam_level, profile_url |-> q.profile_url,
     snapshot_level |-> sn.steam_level, games_count |-> sn.games_count,
     library_value |-> sn.library_value, inventory_value |-> sn.inventory_value,
     total_value |-> sn.total_value, parsed_at |-> sn.parsed_at,
     snapshot_status |-> sn.status, error_message |-> sn.error_message]

\* ... WHERE ps.session_id = %s
SessionProfileRows(session_id) ==
    {SessionProfileRow(x[1], x[2]) :
        x \in {y \in profile_snapshots \X profiles :
                  y[1].session_id = session_id /\ y[1].profile_id = y[2].id}}

\* ... ORDER BY ps.total_value DESC: the row lists the query may return (rows
\* of equal total_value come in any order).
SessionProfileLists(session_id) ==
    {o \in Orderings(SessionProfileRows(session_id)) :
        \A i \in 1..Len(o) - 1 : o[i].total_value >= o[i + 1].total_value}

\* ------------------------------------------------- DatabaseManager operations
\* Each operation is an action on the store and the history, and an operator
\* X_exc giving the exception the call raises ("none": it returns).  get_cursor
\* rolls the transaction back and re-raises, so a call that raises leaves the
\* tables as they were; a sequence value it drew stays drawn.

\* The store becomes unreachable, or reachable again (psycopg2.connect).
StoreDown == dbUp /\ dbUp' = FALSE /\ UNCHANGED <<store, pc, frame, got, history>>
StoreUp == ~dbUp /\ dbUp' = TRUE /\ UNCHANGED <<store, pc, frame, got, history>>

\* The rows of a table after create_tables_sql committed: a table that a
\* statement dropped has lost its rows.
RowsKept(rows, table, dropped) == IF table \in dropped THEN {} ELSE rows

\* _create_tables: create_tables_sql in one transaction; any exception is
\* caught and printed (lines 224-230).
create_tables_script ==
    ExecScript([ok |-> TRUE, objs |-> schema, dropped |-> {}], CreateTablesSql, 1)

\* The script committed ("tables created" is printed) or raised (the error is
\* printed).
create_tables_ok == dbUp /\ create_tables_script.ok

create_tables ==
    LET st == create_tables_script
    IN  /\ IF create_tables_ok
           THEN /\ schema' = st.objs
                /\ parse_sessions' = RowsKept(parse_sessions, "parse_sessions", st.dropped)
                /\ profiles' = RowsKept(profiles, "profiles", st.dropped)
                /\ profile_snapshots' =
                       RowsKept(profile_snapshots, "profile_snapshots", st.dropped)
           ELSE UNCHANGED <<schema, tables>>
        /\ UNCHANGED <<sequences, history>>

create_parse_session_exc ==
    IF Usable({"parse_sessions"}) THEN "none" ELSE "StorageUnavailable"

create_parse_session(parse_time) ==
    /\ IF create_parse_session_exc = "none"
       THEN /\ session_seq' = session_seq + 1
            /\ parse_sessions' =
                   parse_sessions \cup {NewSessionRow(session_seq + 1, parse_time)}
       ELSE UNCHANGED <<session_seq, parse_sessions>>
    /\ UNCHANGED <<schema, profiles, profile_snapshots, profile_seq, snapshot_seq,
                   history>>

update_session_stats_exc ==
    IF Usable({"parse_sessions"}) THEN "none" ELSE "StorageUnavailable"

update_session_stats(session_id, total_profiles, successful, failed) ==
    /\ IF update_session_stats_exc = "none"
       THEN /\ parse_sessions' =
                   UpdateSessionRows(parse_sessions, session_id, total_profiles,
                                     successful, failed)
            /\ finalized' =
                   IF \E r \in parse_sessions : r.id = session_id
                   THEN [finalized EXCEPT ![session_id] =
                            << <<total_profiles, successful, failed>> >>]
                   ELSE finalized
       ELSE UNCHANGED <<parse_sessions, finalized>>
    /\ UNCHANGED <<schema, profiles, profile_snapshots, sequences, written, handles>>

delete_session_exc ==
    IF Usable({"parse_sessions", "profile_snapshots"}) THEN "none"
    ELSE "StorageUnavailable"

delete_session(session_id) ==
    /\ IF delete_session_exc = "none"
       THEN /\ parse_sessions' = SessionsAfterDelete(parse_sessions, session_id)
            /\ profile_snapshots' = SnapshotsAfterDelete(profile_snapshots, session_id)
       ELSE UNCHANGED <<parse_sessions, profile_snapshots>>
    /\ UNCHANGED <<schema, profiles, sequences, history>>

\* get_or_create_profile, its SELECT: the rows holding steam_id.
get_or_create_profile_select(steam_id) == {r \in profiles : r.steam_id = steam_id}

get_or_create_profile_exc ==
    IF Usable({"profiles"}) THEN "none" ELSE "StorageUnavailable"

Handed(h, id, d, creating) ==
    [ids |-> h.ids \cup {id},
     created |-> IF creating THEN h.created \cup {d} ELSE h.created]

\* get_or_create_profile, the branch that found a row: its UPDATE runs the
\* row trigger of profiles.
get_or_create_profile_update_exc ==
    IF UpdateTriggerRaises(schema, "profiles") THEN "UndefinedColumn" ELSE "none"

\* get_or_create_profile, the branch that found row r: UPDATE and return r.id,
\* or raise and roll back.  The UPDATE addresses the row by id and no operation
\* deletes a profiles row, so a commit between the SELECT and the UPDATE cannot
\* change its effect.
get_or_create_profile_update(r, d) ==
    /\ IF get_or_create_profile_update_exc = "none"
       THEN /\ profiles' = UpdateProfileRows(profiles, r.id, d)
            /\ handles' = [handles EXCEPT ![r.steam_id] = Handed(@, r.id, d, FALSE)]
       ELSE UNCHANGED <<profiles, handles>>
    /\ UNCHANGED <<schema, parse_sessions, profile_snapshots, sequences,
                   written, finalized>>

\* get_or_create_profile, the INSERT of the branch that found no row: another
\* transaction may have committed the same steam_id since the SELECT.
get_or_create_profile_insert_exc(steam_id) ==
    IF ~Usable({"profiles"}) THEN "StorageUnavailable"
    ELSE IF ~ProfileInsertAllowed(profiles, steam_id) THEN "UniqueViolation"
    ELSE "none"

get_or_create_profile_insert(steam_id, d) ==
    LET exc == get_or_create_profile_insert_exc(steam_id)
        id == profile_seq + 1
    IN  /\ profile_seq' = IF exc = "StorageUnavailable" THEN profile_seq ELSE id
        /\ IF exc = "none"
           THEN /\ profiles' = profiles \cup {NewProfileRow(id, steam_id, d)}
                /\ handles' = [handles EXCEPT ![steam_id] = Handed(@, id, d, TRUE)]
           ELSE UNCHANGED <<profiles, handles>>
        /\ UNCHANGED <<schema, parse_sessions, profile_snapshots, session_seq,
                       snapshot_seq, written, finalized>>

save_profile_snapshot_exc(session_id, profile_id) ==
    IF ~Usable({"profile_snapshots"}) THEN "StorageUnavailable"
    ELSE IF ~ForeignKeysHold([session_id |-> session_id, profile_id |-> profile_id])
    THEN "ForeignKeyViolation"
    ELSE "none"

save_profile_snapshot(session_id, profile_id, profile_data, status, error, now) ==
    LET exc == save_profile_snapshot_exc(session_id, profile_id)
        x == ProposedSnapshot(snapshot_seq + 1, session_id, profile_id,
                              profile_data, status, error, now)
    IN  /\ snapshot_seq' = IF exc = "StorageUnavailable" THEN snapshot_seq
                           ELSE snapshot_seq + 1
        /\ IF exc = "none"
           THEN /\ profile_snapshots' = Upsert(profile_snapshots, x)
                /\ written' = [written EXCEPT ![<<session_id, profile_id>>] =
                                  Append(@, x)]
           ELSE UNCHANGED <<profile_snapshots, written>>
        /\ UNCHANGED <<schema, parse_sessions, profiles, session_seq, profile_seq,
                       finalized, handles>>

\* The reads: SELECT from the session_summary view.
read_exc == IF Usable(FullSchema) THEN "none" ELSE "StorageUnavailable"

get_session_by_id(session_id) == SessionById(session_id)

get_sessions(limit) == SessionLists(limit)

get_session_profiles(session_id) == SessionProfileLists(session_id)

\* get_stats: (SELECT SUM(total_value) FROM profile_snapshots) as total_value,
\* NULL over an empty table.
get_stats_total_value == SqlSum([sn \in profile_snapshots |-> sn.total_value])

\* ------------------------------------------------------- callers of the store
\* A caller is a thread of the dashboard (main) or an unattended process
\* (run_auto_parse) holding a DatabaseManager.  An operation of one SQL
\* statement is one step whoever calls it; pc and frame place the callers that
\* are inside an operation of several steps.

NoFrame == [op |-> "none"]
\* got when the last completed call was no read and printed nothing.
NoRead == [op |-> "none"]

Idle(p) == pc[p] = "idle"

\* got after get_or_create_profile(steam_id, ..): whether its SELECT found a
\* row, the exception it raised, and the handle it returned if it raised none.
Resolved(steam_id, found, exc, id) ==
    [op |-> "get_or_create_profile", steam_id |-> steam_id, found |-> found,
     exc |-> exc, val |-> IF exc = "none" THEN id ELSE 0]

\* DatabaseManager(config) / _init_db, the EXISTS query on
\* information_schema.tables.  Any exception is caught and printed (lines
\* 111-113), so the call returns whatever happens.
InitDb(p) ==
    /\ Idle(p)
    /\ IF ~dbUp
       THEN /\ got' = [op |-> "_init_db", val |-> "connection error printed"]
            /\ UNCHANGED pc
       ELSE IF "parse_sessions" \in schema
       THEN /\ got' = [op |-> "_init_db", val |-> "connected"]
            /\ UNCHANGED pc
       ELSE /\ pc' = [pc EXCEPT ![p] = "create_tables"]
            /\ got' = NoRead
    /\ UNCHANGED <<dbUp, store, frame, history>>

\* _init_db, the call of _create_tables when the query found no table.
CreateTables(p) ==
    /\ pc[p] = "create_tables"
    /\ pc' = [pc EXCEPT ![p] = "idle"]
    /\ create_tables
    /\ got' = [op |-> "_init_db",
               val |-> IF create_tables_ok THEN "tables created"
                       ELSE "creation error printed"]
    /\ UNCHANGED <<dbUp, frame>>

CreateParseSession(parse_time) ==
    /\ session_seq < MaxSessions
    /\ create_parse_session(parse_time)
    /\ got' = NoRead
    /\ UNCHANGED <<dbUp, pc, frame>>

UpdateSessionStats(session_id, total_profiles, successful, failed) ==
    /\ update_session_stats(session_id, total_profiles, successful, failed)
    /\ got' = NoRead
    /\ UNCHANGED <<dbUp, pc, frame>>

DeleteSession(session_id) ==
    /\ delete_session(session_id)
    /\ got' = NoRead
    /\ UNCHANGED <<dbUp, pc, frame>>

\* get_or_create_profile up to its first write.
GetOrCreateProfile(p, steam_id, d) ==
    /\ Idle(p)
    /\ IF get_or_create_profile_exc # "none"
       THEN /\ got' = Resolved(steam_id, FALSE, get_or_create_profile_exc, 0)
            /\ UNCHANGED <<store, pc, frame, history>>
       ELSE IF get_or_create_profile_select(steam_id) # {}
       THEN /\ \E r \in get_or_create_profile_select(steam_id) :
                   /\ get_or_create_profile_update(r, d)
                   /\ got' = Resolved(steam_id, TRUE,
                                      get_or_create_profile_update_exc, r.id)
            /\ UNCHANGED <<pc, frame>>
       ELSE /\ got' = NoRead
            /\ pc' = [pc EXCEPT ![p] = "insert_profile"]
            /\ frame' = [frame EXCEPT ![p] =
                            [op |-> "get_or_create_profile",
                             steam_id |-> steam_id, d |-> d]]
            /\ UNCHANGED <<store, history>>
    /\ UNCHANGED dbUp

\* get_or_create_profile from its INSERT on.
InsertProfile(p) ==
    /\ pc[p] = "insert_profile"
    /\ pc' = [pc EXCEPT ![p] = "idle"]
    /\ frame' = [frame EXCEPT ![p] = NoFrame]
    /\ get_or_create_profile_insert(frame[p].steam_id, frame[p].d)
    /\ got' = Resolved(frame[p].steam_id, FALSE,
                       get_or_create_profile_insert_exc(frame[p].steam_id),
                       profile_seq + 1)
    /\ UNCHANGED dbUp

SaveProfileSnapshot(session_id, profile_id, d, status, error, now) ==
    /\ snapshot_seq < MaxSnapshotId
    /\ save_profile_snapshot(session_id, profile_id, d, status, error, now)
    /\ got' = NoRead
    /\ UNCHANGED <<dbUp, pc, frame>>

GetSessionById(session_id) ==
    /\ got' = IF read_exc = "none"
              THEN [op |-> "get_session_by_id", session_id |-> session_id,
                    val |-> get_session_by_id(session_id)]
              ELSE NoRead
    /\ UNCHANGED <<dbUp, store, pc, frame, history>>

GetSessions(limit) ==
    /\ IF read_exc = "none"
       THEN \E rows \in get_sessions(limit) :
                got' = [op |-> "get_sessions", limit |-> limit, val |-> rows]
       ELSE got' = NoRead
    /\ UNCHANGED <<dbUp, store, pc, frame, history>>

GetSessionProfiles(session_id) ==
    /\ IF read_exc = "none"
       THEN \E rows \in get_session_profiles(session_id) :
                got' = [op |-> "get_session_profiles", session_id |-> session_id,
                        val |-> rows]
       ELSE got' = NoRead
    /\ UNCHANGED <<dbUp, store, pc, frame, history>>

\* ----------------------------------------- get_cursor, statement by statement
\* save_profile_snapshot as the steps of `with self.get_cursor() as cursor`:
\* connect and open the cursor, execute the INSERT .. ON CONFLICT, commit or
\* roll back, close the cursor, close the connection.  Other callers commit
\* between the steps.

\* The locals of one call: its arguments, the row the statement proposed once
\* it has executed, the connection, the cursor and the transaction, the
\* exception on its way to the caller, and whether the statement had to wait.
CursorFrame(session_id, profile_id, args) ==
    [op |-> "save_profile_snapshot", session_id |-> session_id,
     profile_id |-> profile_id, args |-> args, x |-> NoFrame,
     conn |-> "open", cursor |-> "open", tx |-> "active", exc |-> "none",
     waited |-> FALSE]

InCursor(p) == frame[p].op = "save_profile_snapshot"

\* The callers whose transaction has written the pair's row and has neither
\* committed nor rolled back: they hold the lock on the row.
LockedBy(session_id, profile_id) ==
    {p \in Procs : /\ pc[p] \in {"commit", "rollback"}
                   /\ frame[p].x # NoFrame
                   /\ frame[p].session_id = session_id
                   /\ frame[p].profile_id = profile_id}

\* finally: cursor.close(), skipped for a call that raised.
cursor_close_unless_raised(f) ==
    IF f.exc = "none" THEN [f EXCEPT !.cursor = "closed"] ELSE f

\* finally: cursor.close()
cursor_close(f) == [f EXCEPT !.cursor = "closed"]

\* finally: if conn: conn.close()
conn_close(f) == IF f.conn = "open" THEN [f EXCEPT !.conn = "closed"] ELSE f

\* got after the call left get_cursor and get_connection: the exception that
\* reached the caller, and the call's locals at that moment.
Exited(f) == [op |-> "save_profile_snapshot", exc |-> f.exc, f |-> f]

\* get_connection and conn.cursor(): psycopg2.connect raises when the store is
\* unreachable; get_connection prints, re-raises, and has no connection to
\* close.
GetCursor(p, session_id, profile_id, args) ==
    /\ Idle(p)
    /\ snapshot_seq + Cardinality({o \in Procs : pc[o] = "execute"}) < MaxSnapshotId
    /\ IF dbUp
       THEN /\ pc' = [pc EXCEPT ![p] = "execute"]
            /\ frame' = [frame EXCEPT ![p] =
                            CursorFrame(session_id, profile_id, args)]
            /\ got' = NoRead
       ELSE /\ got' = Exited([CursorFrame(session_id, profile_id, args) EXCEPT
                                 !.conn = "none", !.cursor = "none",
                                 !.tx = "none", !.exc = "StorageUnavailable"])
            /\ UNCHANGED <<pc, frame>>
    /\ UNCHANGED <<dbUp, store, history>>

\* cursor.execute(INSERT .. ON CONFLICT ..): the statement raises, or writes
\* the pair's row in its transaction; it waits while another transaction that
\* wrote the same pair is open.
Execute(p) ==
    LET f == frame[p]
        exc == save_profile_snapshot_exc(f.session_id, f.profile_id)
        x == ProposedSnapshot(snapshot_seq + 1, f.session_id, f.profile_id,
                              f.args[1], f.args[2], f.args[3], f.args[4])
    IN  /\ pc[p] = "execute"
        /\ exc = "none" => LockedBy(f.session_id, f.profile_id) = {}
        /\ snapshot_seq' = IF exc = "StorageUnavailable" THEN snapshot_seq
                           ELSE snapshot_seq + 1
        /\ IF exc = "none"
           THEN /\ pc' = [pc EXCEPT ![p] = "commit"]
                /\ frame' = [frame EXCEPT ![p].x = x]
           ELSE /\ pc' = [pc EXCEPT ![p] = "rollback"]
                /\ frame' = [frame EXCEPT ![p].exc = exc]
        /\ got' = NoRead
        /\ UNCHANGED <<dbUp, schema, tables, session_seq, profile_seq, history>>

\* The statement finds the pair's row locked and waits for the other
\* transaction to end.
ExecuteWaits(p) ==
    LET f == frame[p]
    IN  /\ pc[p] = "execute"
        /\ save_profile_snapshot_exc(f.session_id, f.profile_id) = "none"
        /\ LockedBy(f.session_id, f.profile_id) # {}
        /\ ~f.waited
        /\ frame' = [frame EXCEPT ![p].waited = TRUE]
        /\ got' = NoRead
        /\ UNCHANGED <<dbUp, store, pc, history>>

\* conn.commit(): the row becomes the committed row of the pair; a commit
\* that cannot reach the store raises into the except clause.
Commit(p) ==
    LET f == frame[p]
    IN  /\ pc[p] = "commit"
        /\ IF dbUp
           THEN /\ profile_snapshots' = Upsert(profile_snapshots, f.x)
                /\ written' = [written EXCEPT ![<<f.session_id, f.profile_id>>] =
                                  Append(@, f.x)]
                /\ pc' = [pc EXCEPT ![p] = "cursor_close"]
                /\ frame' = [frame EXCEPT ![p].tx = "committed"]
           ELSE /\ pc' = [pc EXCEPT ![p] = "rollback"]
                /\ frame' = [frame EXCEPT ![p].exc = "StorageUnavailable"]
                /\ UNCHANGED <<profile_snapshots, written>>
        /\ got' = NoRead
        /\ UNCHANGED <<dbUp, schema, parse_sessions, profiles, sequences,
                       finalized, handles>>

\* except: conn.rollback(); print; raise.  The transaction's row is discarded,
\* by the rollback or with the lost connection.
Rollback(p) ==
    /\ pc[p] = "rollback"
    /\ pc' = [pc EXCEPT ![p] = "cursor_close"]
    /\ frame' = [frame EXCEPT ![p].tx = "rolled_back"]
    /\ got' = NoRead
    /\ UNCHANGED <<dbUp, store, history>>

CursorClose(p) ==
    /\ pc[p] = "cursor_close"
    /\ pc' = [pc EXCEPT ![p] = "conn_close"]
    /\ frame' = [frame EXCEPT ![p] = cursor_close(frame[p])]
    /\ got' = NoRead
    /\ UNCHANGED <<dbUp, store, history>>

\* get_connection's finally; the call returns, or the exception reaches the
\* caller.
ConnClose(p) ==
    /\ pc[p] = "conn_close"
    /\ pc' = [pc EXCEPT ![p] = "idle"]
    /\ frame' = [frame EXCEPT ![p] = NoFrame]
    /\ got' = Exited(conn_close(frame[p]))
    /\ UNCHANGED <<dbUp, store, history>>

\* ------------------------------------------------------ parse_all_accounts
\* The locals of one run: the session handle, the position i in the roster,
\* the lengths of successful_profiles and failed_profiles, the fetched data and
\* the entity handle of the entry in work, how often update_session_stats was
\* called, and the exception that ended the run with the call that raised it.
RunFrame(session_id) ==
    [op |-> "parse_all_accounts", session_id |-> session_id, i |-> 1,
     successful |-> 0, failed |-> 0, data |-> NoFrame, profile_id |-> 0,
     finalize_calls |-> 0, exc |-> "none", at |-> "none"]

InRun(p) == frame[p].op = "parse_all_accounts"

\* The exception leaves parse_all_accounts: no statement of it is inside a
\* try block, and get_cursor re-raises after the rollback.
Raise(p, exc, at) ==
    /\ pc' = [pc EXCEPT ![p] = "raised"]
    /\ frame' = [frame EXCEPT ![p].exc = exc, ![p].at = at]

\* A roster entry that fails without being counted.
CountFailedDropped(f) == f

\* failed_profiles.append({...}): len(failed_profiles) grows by one.
CountFailed(f) == [f EXCEPT !.failed = @ + 1]

\* A saved roster entry that is not counted.
CountSuccessfulDropped(f) == f

\* successful_profiles.append(result['data']): len(successful_profiles) grows
\* by one.
CountSuccessful(f) == [f EXCEPT !.successful = @ + 1]

\* A loop that starts the next turn on the same roster entry.
NextEntryStaying(f) == [f EXCEPT !.data = NoFrame, !.profile_id = 0]

\* time.sleep(1) and the next turn of the for loop, or the end of the loop.
NextEntry(f) ==
    [f EXCEPT !.i = f.i + 1, !.data = NoFrame, !.profile_id = 0]

AfterEntry(f) ==
    IF f.i + 1 > Len(STEAM_ACCOUNTS) THEN "update_session_stats"
    ELSE "parse_account"

\* session_id = self.db.create_parse_session() and the test of the handle.
ParseAllAccounts(p, parse_time) ==
    /\ Idle(p)
    /\ session_seq < MaxSessions
    /\ create_parse_session(parse_time)
    /\ got' = NoRead
    /\ IF create_parse_session_exc # "none"
       THEN /\ pc' = [pc EXCEPT ![p] = "raised"]
            /\ frame' = [frame EXCEPT ![p] =
                            [RunFrame(0) EXCEPT !.exc = create_parse_session_exc,
                                                !.at = "create_parse_session"]]
       ELSE IF session_seq + 1 = 0
       THEN /\ pc' = [pc EXCEPT ![p] = "returned"]
            /\ frame' = [frame EXCEPT ![p] = RunFrame(0)]
       ELSE /\ pc' = [pc EXCEPT ![p] = "parse_account"]
            /\ frame' = [frame EXCEPT ![p] = RunFrame(session_seq + 1)]
    /\ UNCHANGED dbUp

\* result = self.parse_account(account): the fetch succeeds with some data, or
\* fails; parse_account catches every exception of the fetch and returns
\* success False, which the loop counts in failed_profiles.
ParseAccount(p) ==
    /\ pc[p] = "parse_account"
    /\ \/ \E d \in ProfileData :
             /\ pc' = [pc EXCEPT ![p] = "get_or_create_profile"]
             /\ frame' = [frame EXCEPT ![p].data = d]
       \/ /\ pc' = [pc EXCEPT ![p] = AfterEntry(frame[p])]
          /\ frame' = [frame EXCEPT ![p] =
                          NextEntry(CountFailed(frame[p]))]
    /\ got' = NoRead
    /\ UNCHANGED <<dbUp, store, history>>

\* profile_id = self.db.get_or_create_profile(steam_id, data), up to its first
\* write.
RunGetOrCreateProfile(p) ==
    LET steam_id == extract_steam_id(STEAM_ACCOUNTS[frame[p].i])
    IN  /\ pc[p] = "get_or_create_profile"
        /\ got' = NoRead
        /\ IF get_or_create_profile_exc # "none"
           THEN /\ Raise(p, get_or_create_profile_exc, "get_or_create_profile")
                /\ UNCHANGED <<store, history>>
           ELSE IF get_or_create_profile_select(steam_id) # {}
           THEN \E r \in get_or_create_profile_select(steam_id) :
                   /\ get_or_create_profile_update(r, frame[p].data)
                   /\ IF get_or_create_profile_update_exc # "none"
                      THEN Raise(p, get_or_create_profile_update_exc,
                                 "get_or_create_profile")
                      ELSE /\ pc' = [pc EXCEPT ![p] = "save_profile_snapshot"]
                           /\ frame' = [frame EXCEPT ![p].profile_id = r.id]
           ELSE /\ pc' = [pc EXCEPT ![p] = "get_or_create_profile_insert"]
                /\ UNCHANGED <<frame, store, history>>
        /\ UNCHANGED dbUp

\* get_or_create_profile from its INSERT on, and the test of the handle.
RunInsertProfile(p) ==
    LET steam_id == extract_steam_id(STEAM_ACCOUNTS[frame[p].i])
        exc == get_or_create_profile_insert_exc(steam_id)
    IN  /\ pc[p] = "get_or_create_profile_insert"
        /\ get_or_create_profile_insert(steam_id, frame[p].data)
        /\ got' = NoRead
        /\ IF exc # "none"
           THEN Raise(p, exc, "get_or_create_profile")
           ELSE IF profile_seq + 1 = 0
           THEN /\ pc' = [pc EXCEPT ![p] = AfterEntry(frame[p])]
                /\ frame' = [frame EXCEPT ![p] =
                                NextEntry(CountFailed(frame[p]))]
           ELSE /\ pc' = [pc EXCEPT ![p] = "save_profile_snapshot"]
                /\ frame' = [frame EXCEPT ![p].profile_id = profile_seq + 1]
        /\ UNCHANGED dbUp

\* self.db.save_profile_snapshot(session_id, profile_id, data) and the append
\* to successful_profiles.
RunSaveProfileSnapshot(p, now) ==
    LET f == frame[p]
        exc == save_profile_snapshot_exc(f.session_id, f.profile_id)
    IN  /\ pc[p] = "save_profile_snapshot"
        /\ save_profile_snapshot(f.session_id, f.profile_id, f.data, "success",
                                 NULL, now)
        /\ got' = NoRead
        /\ IF exc # "none"
           THEN Raise(p, exc, "save_profile_snapshot")
           ELSE /\ pc' = [pc EXCEPT ![p] = AfterEntry(f)]
                /\ frame' = [frame EXCEPT ![p] =
                                NextEntry(CountSuccessful(f))]
        /\ UNCHANGED dbUp

\* self.db.update_session_stats(session_id, len(STEAM_ACCOUNTS),
\* len(successful_profiles), len(failed_profiles)) after the loop.
RunUpdateSessionStats(p) ==
    LET f == frame[p]
        called == [f EXCEPT !.finalize_calls = @ + 1]
    IN  /\ pc[p] = "update_session_stats"
        /\ update_session_stats(f.session_id, Len(STEAM_ACCOUNTS), f.successful,
                                f.failed)
        /\ got' = NoRead
        /\ IF update_session_stats_exc # "none"
           THEN /\ pc' = [pc EXCEPT ![p] = "raised"]
                /\ frame' = [frame EXCEPT ![p] =
                                [called EXCEPT !.exc = update_session_stats_exc,
                                               !.at = "update_session_stats"]]
           ELSE /\ pc' = [pc EXCEPT ![p] =
                             IF f.successful > 0 THEN "create_word_report"
                             ELSE "returned"]
                /\ frame' = [frame EXCEPT ![p] = called]
        /\ UNCHANGED dbUp

\* _create_word_report: it reads the session's summary and subscripts it, then
\* parse_all_accounts returns.
RunCreateWordReport(p) ==
    LET f == frame[p]
        exc == IF read_exc # "none" THEN read_exc
               ELSE IF get_session_by_id(f.session_id) = {} THEN "TypeError"
               ELSE "none"
    IN  /\ pc[p] = "create_word_report"
        /\ IF exc # "none"
           THEN /\ Raise(p, exc, "_create_word_report")
                /\ got' = NoRead
           ELSE /\ pc' = [pc EXCEPT ![p] = "returned"]
                /\ got' = [op |-> "get_session_by_id", session_id |-> f.session_id,
                           val |-> get_session_by_id(f.session_id)]
                /\ UNCHANGED frame
        /\ UNCHANGED <<dbUp, store, history>>

\* ------------------------------------------------------------ specifications

\* The store as DatabaseManager(config) leaves it on a reachable, empty
\* database: the schema created, the tables empty.
Init ==
    /\ dbUp = TRUE
    /\ schema = FullSchema
    /\ parse_sessions = {}
    /\ profiles = {}
    /\ profile_snapshots = {}
    /\ session_seq = 0
    /\ profile_seq = 0
    /\ snapshot_seq = 0
    /\ pc = [p \in Procs |-> "idle"]
    /\ frame = [p \in Procs |-> NoFrame]
    /\ got = NoRead
    /\ written = [k \in Pairs |-> << >>]
    /\ finalized = [s \in SessionIds |-> << >>]
    /\ handles = [s \in SteamIds |-> [ids |-> {}, created |-> {}]]

Outage == StoreDown \/ StoreUp

SessionCalls ==
    \/ CreateParseSession(1)
    \/ \E s \in SessionIds, total \in Counts, successful \in Counts,
          failed \in Counts : UpdateSessionStats(s, total, successful, failed)
    \/ \E s \in SessionIds : DeleteSession(s)

ProfileCalls ==
    \/ \E p \in Procs, sid \in SteamIds, d \in ProfileData :
          GetOrCreateProfile(p, sid, d)
    \/ \E p \in Procs : InsertProfile(p)

\* The session manager and its callers.
NextSessions == Outage \/ SessionCalls
SpecSessions == Init /\ [][NextSessions]_vars

\* The entity registry and its callers.
NextProfiles == Outage \/ ProfileCalls
SpecProfiles == Init /\ [][NextProfiles]_vars

\* The arguments of the save_profile_snapshot calls: parse_all_accounts saves
\* with the default status; a caller recording a failure hands in the status
\* and the error text.
SnapshotArgs ==
    {<<P1, "success", NULL>>, <<P2, "success", NULL>>, <<P3, "failed", "timeout">>}

SnapshotCalls ==
    \E s \in SessionIds, q \in ProfileIds, a \in SnapshotArgs, now \in Times :
        SaveProfileSnapshot(s, q, a[1], a[2], a[3], now)

DeleteCalls == \E s \in SessionIds : DeleteSession(s)

ReadCalls ==
    \/ \E s \in 0..MaxSessions : GetSessionById(s)
    \/ \E limit \in 1..MaxSessions : GetSessions(limit)

\* A store in use: session 1 opened by create_parse_session, session 2 opened
\* later and finalized by update_session_stats with no success, and both
\* roster entries resolved by get_or_create_profile.
InitInUse ==
    /\ dbUp = TRUE
    /\ schema = FullSchema
    /\ LET n == Len(STEAM_ACCOUNTS)
       IN  /\ parse_sessions =
                  UpdateSessionRows({NewSessionRow(1, 1), NewSessionRow(2, 2)},
                                    2, n, 0, n)
           /\ finalized = [s \in SessionIds |->
                              IF s = 2 THEN << <<n, 0, n>> >> ELSE << >>]
    /\ profiles = {NewProfileRow(1, "A1", P1), NewProfileRow(2, "A2", P2)}
    /\ profile_snapshots = {}
    /\ session_seq = 2
    /\ profile_seq = 2
    /\ snapshot_seq = 0
    /\ pc = [p \in Procs |-> "idle"]
    /\ frame = [p \in Procs |-> NoFrame]
    /\ got = NoRead
    /\ written = [k \in Pairs |-> << >>]
    /\ handles = [s \in SteamIds |->
                     IF s = "A1" THEN [ids |-> {1}, created |-> {P1}]
                     ELSE [ids |-> {2}, created |-> {P2}]]

\* The snapshot writer and its callers.
Next == Outage \/ SnapshotCalls \/ DeleteCalls
Spec == InitInUse /\ [][Next]_vars

\* The readers of the summary beside the snapshot writer.
NextSummary == SnapshotCalls \/ ReadCalls
SpecSummary == InitInUse /\ [][NextSummary]_vars

\* A reachable database on which no DatabaseManager was constructed yet.
InitFresh ==
    /\ dbUp = TRUE
    /\ schema = {}
    /\ parse_sessions = {}
    /\ profiles = {}
    /\ profile_snapshots = {}
    /\ session_seq = 0
    /\ profile_seq = 0
    /\ snapshot_seq = 0
    /\ pc = [p \in Procs |-> "idle"]
    /\ frame = [p \in Procs |-> NoFrame]
    /\ got = NoRead
    /\ written = [k \in Pairs |-> << >>]
    /\ finalized = [s \in SessionIds |-> << >>]
    /\ handles = [s \in SteamIds |-> [ids |-> {}, created |-> {}]]

\* main() constructs a DatabaseManager on every rerun of the page, in every
\* browser session.
InitCalls ==
    \/ \E p \in Procs : InitDb(p)
    \/ \E p \in Procs : CreateTables(p)

\* The writes that fill the three tables between two constructions.
FillCalls ==
    \/ CreateParseSession(1)
    \/ \E p \in Procs : GetOrCreateProfile(p, "A1", P1)
    \/ \E p \in Procs : InsertProfile(p)
    \/ \E s \in SessionIds, q \in ProfileIds :
          SaveProfileSnapshot(s, q, P1, "success", NULL, 1)

\* Store initialization beside the writers.
NextInit == Outage \/ InitCalls \/ FillCalls
SpecInit == InitFresh /\ [][NextInit]_vars

\* The dashboard lists the profiles of the selected session.
ListingCalls == \E s \in 0..MaxSessions : GetSessionProfiles(s)

\* The listing of a session's profiles beside the snapshot writer.
NextListing == SnapshotCalls \/ ListingCalls
SpecListing == InitInUse /\ [][NextListing]_vars

\* The arguments of the step-by-step writers: the pending session, an
\* existing profile and an id that names none, two payloads that differ in
\* every measurement, one reading of the clock.
CursorArgs == {<<P1, "success", NULL, 1>>, <<P3, "failed", "timeout", 1>>}

CursorCalls ==
    \/ \E p \in Procs, q \in {1, 3}, a \in CursorArgs : GetCursor(p, 1, q, a)
    \/ \E p \in Procs : Execute(p)
    \/ \E p \in Procs : ExecuteWaits(p)
    \/ \E p \in Procs : Commit(p)
    \/ \E p \in Procs : Rollback(p)
    \/ \E p \in Procs : CursorClose(p)
    \/ \E p \in Procs : ConnClose(p)

\* Concurrent snapshot writers, transaction step by transaction step.
NextCursor == Outage \/ CursorCalls
SpecCursor == InitInUse /\ [][NextCursor]_vars

\* Finalizations as parse_all_accounts hands them in: the roster's size, and
\* counts that add up to it.
UpdateCalls ==
    \E s \in SessionIds, successful \in {0, 1} :
        UpdateSessionStats(s, Len(STEAM_ACCOUNTS), successful,
                           Len(STEAM_ACCOUNTS) - successful)

\* Snapshot writes with the two payloads of CursorArgs.
ScopedSaves ==
    \E s \in SessionIds, q \in ProfileIds, a \in CursorArgs :
        SaveProfileSnapshot(s, q, a[1], a[2], a[3], a[4])

\* The three writers that take a session id, side by side.
NextScoped == ScopedSaves \/ UpdateCalls \/ DeleteCalls
SpecScoped == InitInUse /\ [][NextScoped]_vars

\* parse_all_accounts, by a dashboard thread and by run_auto_parse.
RunCalls ==
    \/ \E p \in Procs : ParseAllAccounts(p, 1)
    \/ \E p \in Procs : ParseAccount(p)
    \/ \E p \in Procs : RunGetOrCreateProfile(p)
    \/ \E p \in Procs : RunInsertProfile(p)
    \/ \E p \in Procs, now \in Times : RunSaveProfileSnapshot(p, now)
    \/ \E p \in Procs : RunUpdateSessionStats(p)
    \/ \E p \in Procs : RunCreateWordReport(p)

\* The pipeline runs beside outages of the store.
NextRun == Outage \/ RunCalls
SpecRun == Init /\ [][NextRun]_vars

\* The steps of one started run: each call of parse_all_accounts is a
\* statement of a running thread (the script run of a dashboard session, or
\* the process of run_auto_parse), every fetch returns, and time.sleep(1) ends.
RunSteps(p) ==
    \/ ParseAccount(p)
    \/ RunGetOrCreateProfile(p)
    \/ RunInsertProfile(p)
    \/ \E now \in Times : RunSaveProfileSnapshot(p, now)
    \/ RunUpdateSessionStats(p)
    \/ RunCreateWordReport(p)

\* The runs on a store that stays reachable, every started run scheduled until
\* it has returned or raised.  Pressing the button or starting the cron job
\* is left to the user.
NextRunFair == RunCalls
SpecRunFair ==
    Init /\ [][NextRunFair]_vars /\ \A p \in Procs : WF_vars(RunSteps(p))

\* ===================================================================== claims

Measurement(r) ==
    [steam_level |-> r.steam_level, games_count |-> r.games_count,
     library_value |-> r.library_value, inventory_value |-> r.inventory_value,
     parsed_at |-> r.parsed_at, status |-> r.status,
     error_message |-> r.error_message]

SnapshotsOf(k) ==
    {r \in profile_snapshots : r.session_id = k[1] /\ r.profile_id = k[2]}

SessionExists(s) == \E r \in parse_sessions : r.id = s

LastWritten(k) == written[k][Len(written[k])]

\* C1: for every (session, profile) pair of a session that still exists, once
\* save_profile_snapshot has committed for the pair (once, twice or more, with
\* any payloads) the table holds exactly one row for the pair, and every
\* measurement field of that row (level, games count, library value, inventory
\* value, captured-at, status, error) is the one of the last committed call.
C1_IdempotentUpsert ==
    \A k \in Pairs :
        (written[k] # << >> /\ SessionExists(k[1])) =>
            /\ Cardinality(SnapshotsOf(k)) = 1
            /\ \A r \in SnapshotsOf(k) : Measurement(r) = Measurement(LastWritten(k))

\* A pair saved twice with different payloads, the row holding the second.
C1_Witness ==
    \E k \in Pairs :
        /\ Len(written[k]) = 2
        /\ Measurement(written[k][1]) # Measurement(written[k][2])
        /\ \E r \in SnapshotsOf(k) : Measurement(r) = Measurement(written[k][2])

\* C2: in every reachable state no two rows of profile_snapshots share the
\* same (session_id, profile_id) pair.
C2_UniquePair ==
    \A r1 \in profile_snapshots, r2 \in profile_snapshots :
        (r1.session_id = r2.session_id /\ r1.profile_id = r2.profile_id) => r1 = r2

\* Three committed writes, two of them to the same pair, beside a row of
\* another pair.
C2_Witness ==
    /\ snapshot_seq = 3
    /\ \E k \in Pairs : Len(written[k]) = 2 /\ SnapshotsOf(k) # {}
    /\ Cardinality(profile_snapshots) = 2

ProfilesOf(steam_id) == {r \in profiles : r.steam_id = steam_id}

\* C3: however often and with whatever attributes get_or_create_profile
\* resolves a steam_id, profiles holds at most one row for it, every call
\* returns the same handle (a call whose SELECT found the row returns that
\* row's id, and no two calls returned different ids), and every id handed out
\* names a row that still holds that steam_id.
C3_OneEntityPerSteamId ==
    /\ \A sid \in SteamIds :
          /\ Cardinality(ProfilesOf(sid)) <= 1
          /\ Cardinality(handles[sid].ids) <= 1
          /\ \A id \in handles[sid].ids : \E r \in ProfilesOf(sid) : r.id = id
    /\ got.op = "get_or_create_profile" /\ got.found
       => got.exc = "none" /\ got.val \in handles[got.steam_id].ids

\* C4: after update_session_stats(id, total, successful, failed) committed on
\* an existing session, the row stores the three counts it was given, and
\* its status is 'failed' when successful = 0 and 'success' when
\* successful >= 1, whatever total and failed are.
C4_StatusDerivation ==
    \A r \in parse_sessions :
        finalized[r.id] # << >> =>
            LET a == finalized[r.id][1]
            IN  /\ r.total_profiles = a[1]
                /\ r.successful_profiles = a[2]
                /\ r.failed_profiles = a[3]
                /\ (a[2] = 0 => r.status = "failed")
                /\ (a[2] >= 1 => r.status = "success")

\* One session finalized with a single success beside failures, another with
\* no success and no failure.
C4_Witness ==
    /\ \E r \in parse_sessions :
          finalized[r.id] = << <<2, 1, 2>> >> /\ r.status = "success"
    /\ \E r \in parse_sessions :
          finalized[r.id] = << <<1, 0, 0>> >> /\ r.status = "failed"

\* C5: a session is 'pending' when it is created, its status changes only
\* from 'pending' to 'success' or to 'failed', and a status that is 'success'
\* or 'failed' is never changed by a later operation.
C5_OneWayStatus ==
    [][ /\ \A r2 \in parse_sessions' :
              (~\E r \in parse_sessions : r.id = r2.id) => r2.status = "pending"
        /\ \A r \in parse_sessions, r2 \in parse_sessions' :
              (r.id = r2.id /\ r.status # r2.status) =>
                  (r.status = "pending" /\ r2.status \in {"success", "failed"})
      ]_vars

\* C6: in every run that opened a session, update_session_stats is called
\* exactly once, and only after all roster entries were processed: never more
\* than once, never before the end of the roster, and once by the time the run
\* has ended.
C6_FinalizedExactlyOnce ==
    \A p \in Procs :
        InRun(p) /\ frame[p].session_id # 0
        => /\ frame[p].finalize_calls <= 1
           /\ (frame[p].finalize_calls = 1 => frame[p].i > Len(STEAM_ACCOUNTS))
           /\ (pc[p] \in {"returned", "raised"} => frame[p].finalize_calls = 1)

\* C7: a failure while one roster entry is processed (the fetch, the resolution
\* of the entity, the snapshot write) is caught inside the loop: no run ends
\* with an exception raised by get_or_create_profile or save_profile_snapshot.
C7_EntityFailureIsLocal ==
    \A p \in Procs :
        pc[p] = "raised"
        => frame[p].at \notin {"get_or_create_profile", "save_profile_snapshot"}


\* The profiles whose snapshot in session s some committed call wrote.
WrittenIn(s) == {q \in ProfileIds : written[<<s, q>>] # << >>}

Abs(x) == IF x < 0 THEN -x ELSE x

\* C8: whatever snapshot writes and re-writes were committed, the row that
\* get_session_by_id returns for a session folds the last committed write of
\* each of its profiles: total_games is the sum of their games counts,
\* grand_total_value the sum of library value + inventory value, avg_level
\* (in hundredths) the mean of their levels rounded to two decimals; with
\* (5,10,100) and (3,5,50) written it is 15, 4.00, 150.  For an id that names
\* no session it returns no row.
C8_SummaryIsFreshFold ==
    got.op = "get_session_by_id" =>
        LET s == got.session_id
            qs == WrittenIn(s)
            n == Cardinality(qs)
            games == SumFn([q \in qs |-> LastWritten(<<s, q>>).games_count])
            levels == SumFn([q \in qs |-> LastWritten(<<s, q>>).steam_level])
            values == SumFn([q \in qs |-> LastWritten(<<s, q>>).library_value
                                           + LastWritten(<<s, q>>).inventory_value])
        IN  /\ Cardinality(got.val) = IF SessionExists(s) THEN 1 ELSE 0
            /\ \A r \in got.val :
                  /\ r.session_id = s
                  /\ r.total_games = games
                  /\ r.grand_total_value = values
                  /\ 2 * Abs(r.avg_level * n - 100 * levels) <= n
                  /\ ( /\ qs = {1, 2}
                       /\ LastWritten(<<s, 1>>).games_count = 10
                       /\ LastWritten(<<s, 2>>).games_count = 5 )
                     => ( /\ r.total_games = 15
                          /\ r.avg_level = 400
                          /\ r.grand_total_value = 150 )

\* The second scenario: (5,10,100) and (3,5,50) written, the first overwritten
\* with (6,12,120), and the summary read as 17, 4.50, 170.
C8_Witness ==
    /\ got.op = "get_session_by_id"
    /\ got.session_id = 1
    /\ Len(written[<<1, 1>>]) = 2
    /\ written[<<1, 1>>][1].games_count = 10
    /\ Len(written[<<1, 2>>]) = 1
    /\ \E r \in got.val :
          r.total_games = 17 /\ r.avg_level = 450 /\ r.grand_total_value = 170

HasNoSnapshot(s) == ~\E sn \in profile_snapshots : sn.session_id = s

ZeroSummary(r) ==
    /\ r.total_games = 0
    /\ r.avg_level = 0
    /\ r.total_library_value = 0
    /\ r.total_inventory_value = 0
    /\ r.grand_total_value = 0

\* C9: a session without snapshot rows, pending or finalized without a
\* success, is returned by get_session_by_id, and by get_sessions when the
\* limit covers all sessions, with total_games, avg_level and the valuations
\* all 0.
C9_ZeroDefault ==
    /\ ( /\ got.op = "get_session_by_id"
         /\ SessionExists(got.session_id)
         /\ HasNoSnapshot(got.session_id) )
       => ( got.val # {} /\ \A r \in got.val : ZeroSummary(r) )
    /\ ( got.op = "get_sessions" /\ got.limit >= Cardinality(parse_sessions) )
       => \A ps \in parse_sessions :
             HasNoSnapshot(ps.id) =>
                 \E i \in 1..Len(got.val) :
                     got.val[i].session_id = ps.id /\ ZeroSummary(got.val[i])

\* get_sessions returned both sessions: the pending one with two snapshots and
\* the one finalized as failed, which has none.
C9_Witness ==
    /\ got.op = "get_sessions"
    /\ Len(got.val) = 2
    /\ HasNoSnapshot(2)
    /\ \E r \in parse_sessions : r.id = 2 /\ r.status = "failed"
    /\ Cardinality({sn \in profile_snapshots : sn.session_id = 1}) = 2


\* C10: a step of _init_db that runs the creation script returns to its caller,
\* leaves every row and sequence as it was, and leaves the schema as it was or
\* completes it; over a complete schema it changes nothing.
C10_IdempotentInit ==
    [][\A p \in Procs :
          pc[p] = "create_tables" /\ pc'[p] # "create_tables"
          => /\ pc'[p] = "idle"
             /\ tables' = tables
             /\ sequences' = sequences
             /\ schema' \in {schema, FullSchema}
             /\ (schema = FullSchema => schema' = FullSchema)]_vars

\* The creation script has run and committed over a schema whose three tables
\* all held rows.
C10_Witness ==
    /\ got = [op |-> "_init_db", val |-> "tables created"]
    /\ parse_sessions # {}
    /\ profiles # {}
    /\ profile_snapshots # {}
    /\ schema = FullSchema

\* C11: in every reachable state every snapshot row references an existing
\* session and an existing profile: no snapshot was ever committed for a
\* profile id that names no row, and no snapshot row remains for a session that
\* was deleted.
C11_SnapshotsHaveParents ==
    /\ \A sn \in profile_snapshots :
          /\ SessionExists(sn.session_id)
          /\ \E q \in profiles : q.id = sn.profile_id
    /\ \A k \in Pairs :
          /\ (written[k] # << >> => \E q \in profiles : q.id = k[2])
          /\ (~SessionExists(k[1]) => SnapshotsOf(k) = {})

\* Snapshots were committed for a session, a write for a parent that does not
\* exist was refused (it drew an id and committed nothing), and the session was
\* deleted: none of its snapshots is left.
C11_Witness ==
    /\ \E k \in Pairs : Len(written[k]) = 2 /\ ~SessionExists(k[1])
    /\ snapshot_seq = 3
    /\ profile_snapshots = {}

\* C12: two runs of parse_all_accounts with sessions of their own, interleaved
\* in any way, do not make each other's store operations fail: a run is ended
\* by an exception only when the store itself was unavailable to the call.
C12_RunsDoNotInterfere ==
    \A p \in Procs :
        InRun(p) /\ pc[p] = "raised" => frame[p].exc = "StorageUnavailable"

\* C13: when two callers write the same (session, profile) pair at the same
\* time, the later statement waits for the earlier transaction and then
\* overwrites its row: the call that waited ends without an error (unless the
\* store became unreachable), no writer is ever refused for the pair being
\* taken, and the pair's single row holds all measurement fields of one
\* committed write, never fields of two.
C13_LastWriteWins ==
    /\ got.op = "save_profile_snapshot" /\ got.f.waited
       => got.exc \in {"none", "StorageUnavailable"}
    /\ \A p \in Procs :
          InCursor(p)
          => frame[p].exc \in {"none", "StorageUnavailable", "ForeignKeyViolation"}
    /\ \A k \in Pairs :
          /\ Cardinality(SnapshotsOf(k)) <= 1
          /\ \A r \in SnapshotsOf(k) :
                \E i \in 1..Len(written[k]) :
                   Measurement(r) = Measurement(written[k][i])

\* Two callers wrote the same pair with different payloads, the second
\* statement waited for the first transaction, both committed, and the row
\* holds the payload of the call that waited.
C13_Witness ==
    /\ got.op = "save_profile_snapshot"
    /\ got.f.waited
    /\ got.exc = "none"
    /\ LET k == <<got.f.session_id, got.f.profile_id>>
       IN  /\ Len(written[k]) = 2
           /\ Measurement(written[k][1]) # Measurement(written[k][2])
           /\ \A r \in SnapshotsOf(k) : Measurement(r) = Measurement(got.f.x)
           /\ SnapshotsOf(k) # {}

\* C14: once a session is finalized (its status is success or failed), no step
\* changes a snapshot row of it: every such row is still there, field by field,
\* after the step, unless the step deleted the session.
C14_FinalizedSnapshotsImmutable ==
    [][\A sn \in profile_snapshots :
          (\E ps \in parse_sessions : ps.id = sn.session_id /\ ps.status # "pending")
          => \/ sn \in profile_snapshots'
             \/ ~\E ps \in parse_sessions' : ps.id = sn.session_id]_vars

\* C15: a run whose create_parse_session yielded no session id returns
\* (None, None, []) to its caller, having fetched no roster entry, resolved no
\* profile and written no snapshot.
C15_NoSessionReturnsNone ==
    \A p \in Procs :
        InRun(p) /\ frame[p].session_id = 0
        => /\ pc[p] = "returned"
           /\ frame[p].i = 1
           /\ frame[p].successful = 0
           /\ frame[p].failed = 0
           /\ frame[p].data = NoFrame

\* C16: a store operation is one transaction with scoped resources.  When the
\* call has left get_cursor, its cursor and its connection are not open; it
\* ended without an exception exactly if its transaction committed, and then
\* its row is a committed write, while the row of a call that raised was never
\* committed.  And the tables change only in the step in which a transaction
\* commits without an exception.
C16_AtomicScopedTransaction ==
    /\ [](got.op = "save_profile_snapshot"
          => /\ got.f.cursor # "open"
             /\ got.f.conn # "open"
             /\ (got.exc = "none") = (got.f.tx = "committed")
             /\ LET k == <<got.f.session_id, got.f.profile_id>>
                    committed == \E i \in 1..Len(written[k]) :
                                     written[k][i] = got.f.x
                IN  (got.exc = "none") = committed)
    /\ [][tables' # tables
          => \E p \in Procs : /\ pc[p] = "commit"
                              /\ pc'[p] = "cursor_close"
                              /\ frame'[p].exc = "none"
                              /\ frame'[p].tx = "committed"]_vars

\* A call whose statement had written its row and whose commit could not
\* reach the store: it raised, its transaction was rolled back, cursor and
\* connection are closed and the table holds no row.
C16_Witness ==
    /\ got.op = "save_profile_snapshot"
    /\ got.exc = "StorageUnavailable"
    /\ got.f.x # NoFrame
    /\ got.f.tx = "rolled_back"
    /\ got.f.cursor = "closed"
    /\ got.f.conn = "closed"
    /\ profile_snapshots = {}

\* C17: constructing a DatabaseManager never raises.  _init_db ends by printing
\* one of its four messages, a construction that printed an error has changed
\* nothing in the store, and the process goes on; while the store is
\* unreachable or lacks the tables, every read and write operation raises the
\* storage failure.
C17_DegradedInit ==
    /\ [](/\ got.op = "_init_db"
             => got.val \in {"connected", "tables created",
                             "connection error printed", "creation error printed"}
          /\ (~dbUp \/ schema = {})
             => /\ create_parse_session_exc = "StorageUnavailable"
                /\ update_session_stats_exc = "StorageUnavailable"
                /\ delete_session_exc = "StorageUnavailable"
                /\ get_or_create_profile_exc = "StorageUnavailable"
                /\ read_exc = "StorageUnavailable"
                /\ \A s \in SessionIds, q \in ProfileIds :
                       save_profile_snapshot_exc(s, q) = "StorageUnavailable")
    /\ [][got'.op = "_init_db"
          /\ got'.val \in {"connection error printed", "creation error printed"}
          => /\ store' = store
             /\ \A p \in Procs : pc'[p] \in {pc[p], "idle"}]_vars

\* The store went away between the EXISTS query and the creation script: the
\* script's error was printed, the constructor returned, no table exists and
\* the next operation raises.
C17_Witness ==
    /\ got = [op |-> "_init_db", val |-> "creation error printed"]
    /\ schema = {}
    /\ \A p \in Procs : pc[p] = "idle"
    /\ create_parse_session_exc = "StorageUnavailable"

\* C18: a run works on one roster entry at a time, in roster order.  While the
\* run is in the loop at entry i, exactly the i - 1 entries before it are
\* finished (counted as successful or failed); fetched data is in hand only
\* between the fetch of entry i and its snapshot write (or the exception that
\* ends the run there); the session's
\* snapshots are those of the successful entries, all before i; after the
\* loop all entries are finished.
C18_SequentialRoster ==
    \A p \in Procs :
        InRun(p) /\ frame[p].session_id # 0 =>
            LET f == frame[p]
                n == Len(STEAM_ACCOUNTS)
                working == {"get_or_create_profile", "get_or_create_profile_insert",
                            "save_profile_snapshot"}
                snaps == {sn \in profile_snapshots : sn.session_id = f.session_id}
            IN  /\ pc[p] \in working \cup {"parse_account"}
                   => f.i \in 1..n /\ f.successful + f.failed = f.i - 1
                /\ pc[p] \in {"update_session_stats", "create_word_report", "returned"}
                   => f.i = n + 1 /\ f.successful + f.failed = n
                /\ pc[p] = "raised" => f.successful + f.failed <= f.i - 1
                /\ pc[p] # "raised" => ((pc[p] \in working) = (f.data # NoFrame))
                /\ Cardinality(snaps) = f.successful
                /\ \A sn \in snaps :
                      \E j \in 1..(f.i - 1), q \in profiles :
                          /\ j <= n
                          /\ q.id = sn.profile_id
                          /\ q.steam_id = extract_steam_id(STEAM_ACCOUNTS[j])

\* The first entry is finished with its snapshot written, and the fetch of the
\* second is about to begin.
C18_Witness ==
    \E p \in Procs :
        /\ pc[p] = "parse_account"
        /\ frame[p].i = 2
        /\ frame[p].successful = 1
        /\ \E sn \in profile_snapshots : sn.session_id = frame[p].session_id

\* C19: get_session_profiles(S) returns exactly the snapshots of session S,
\* one row per snapshot with its profile's attributes, in descending order of
\* the snapshot's valuation (library value + inventory value).
C19_OrderedByValuation ==
    got.op = "get_session_profiles" =>
        /\ {r.id : r \in {got.val[i] : i \in 1..Len(got.val)}}
              = {sn.profile_id : sn \in {x \in profile_snapshots :
                                            x.session_id = got.session_id}}
        /\ \A i \in 1..Len(got.val) :
              \E q \in profiles : q.id = got.val[i].id
                                  /\ q.steam_id = got.val[i].steam_id
                                  /\ q.nickname = got.val[i].nickname
        /\ \A i \in 1..Len(got.val), j \in 1..Len(got.val) :
              i < j => got.val[i].library_value + got.val[i].inventory_value
                       >= got.val[j].library_value + got.val[j].inventory_value

SessionRowsOf(rows, s) == {r \in rows : r.id = s}

SnapshotRowsOf(rows, s) == {r \in rows : r.session_id = s}

\* C20: every step of save_profile_snapshot, update_session_stats and
\* delete_session changes the rows of one session at most: there is a session
\* such that the session row and the snapshot rows of every other session are
\* the same after the step, and no step changes a profiles row.
C20_WritesScopedToSession ==
    [][/\ \E s1 \in SessionIds :
             \A s2 \in SessionIds \ {s1} :
                 /\ SessionRowsOf(parse_sessions', s2)
                       = SessionRowsOf(parse_sessions, s2)
                 /\ SnapshotRowsOf(profile_snapshots', s2)
                       = SnapshotRowsOf(profile_snapshots, s2)
       /\ profiles' = profiles]_vars

\* Session 1 had a snapshot written, was finalized and then deleted, while
\* session 2 still has its row as it was and a snapshot of its own.
C20_Witness ==
    /\ ~SessionExists(1)
    /\ finalized[1] # << >>
    /\ written[<<1, 1>>] # << >>
    /\ \E r \in parse_sessions : r.id = 2 /\ r.status = "failed"
    /\ SnapshotRowsOf(profile_snapshots, 2) # {}
    /\ SnapshotRowsOf(profile_snapshots, 1) = {}

\* C21: whenever parse_all_accounts finalizes a session, the counts it stores
\* are the roster's: the step of update_session_stats leaves the session row
\* with total_profiles = len(STEAM_ACCOUNTS) and successful_profiles +
\* failed_profiles = total_profiles, the counts being those of the run's two
\* lists, and every session row that is no longer pending keeps such counts.
C21_CountsAddUp ==
    /\ [] \A r \in parse_sessions :
             r.status # "pending" =>
                 /\ r.total_profiles = Len(STEAM_ACCOUNTS)
                 /\ r.successful_profiles + r.failed_profiles = r.total_profiles
    /\ [][\A p \in Procs :
              pc[p] = "update_session_stats" /\ pc'[p] \in {"create_word_report",
                                                            "returned"}
              => \E r \in parse_sessions' :
                    /\ r.id = frame[p].session_id
                    /\ r.total_profiles = Len(STEAM_ACCOUNTS)
                    /\ r.successful_profiles = frame[p].successful
                    /\ r.failed_profiles = frame[p].failed
                    /\ r.successful_profiles + r.failed_profiles
                           = r.total_profiles
      ]_vars

\* A run has finalized its session with one entry saved and one entry failed.
C21_Witness ==
    \E r \in parse_sessions :
        /\ finalized[r.id] # << >>
        /\ r.status = "success"
        /\ r.successful_profiles = 1
        /\ r.failed_profiles = 1

\* The committed snapshot writes of session s, and the external identifiers
\* they were resolved from.
SavesIn(s) == SumFn([q \in ProfileIds |-> Len(written[<<s, q>>])])

SavedSteamIds(s) == {q.steam_id : q \in {x \in profiles : x.id \in WrittenIn(s)}}

\* C22: for a session finalized by parse_all_accounts, every snapshot row of
\* the session has status 'success', the session has no more snapshot rows than
\* its successful_profiles, which counts the run's committed snapshot writes,
\* and it has exactly as many if and only if these writes were resolved from
\* pairwise distinct steam ids.
C22_SnapshotsWithinSuccessful ==
    \A r \in parse_sessions :
        r.status # "pending" =>
            LET snaps == SnapshotRowsOf(profile_snapshots, r.id)
            IN  /\ \A sn \in snaps : sn.status = "success"
                /\ SavesIn(r.id) = r.successful_profiles
                /\ Cardinality(snaps) <= r.successful_profiles
                /\ (Cardinality(snaps) = r.successful_profiles)
                       = (Cardinality(SavedSteamIds(r.id)) = SavesIn(r.id))

\* A finalized session whose two roster entries were both saved, from two
\* steam ids, beside none of a failed entry.
C22_Witness ==
    \E r \in parse_sessions :
        /\ r.status = "success"
        /\ r.successful_profiles = Len(STEAM_ACCOUNTS)
        /\ Cardinality(SnapshotRowsOf(profile_snapshots, r.id)) = Len(STEAM_ACCOUNTS)
        /\ Cardinality(SavedSteamIds(r.id)) = Len(STEAM_ACCOUNTS)

\* C23: save_profile_snapshot never writes the stored total_value, on insert
\* or on conflict-update: in every state every snapshot row has total_value = 0
\* whatever its library and inventory values are, no step changes the
\* total_value of a row that stays, and the SUM(total_value) of get_stats is
\* NULL or 0.
C23_TotalValueNeverWritten ==
    /\ [] /\ \A sn \in profile_snapshots : sn.total_value = 0
          /\ get_stats_total_value \in {{}, {0}}
    /\ [][\A sn \in profile_snapshots, sn2 \in profile_snapshots' :
              sn.id = sn2.id => sn2.total_value = sn.total_value]_vars

\* A row with a positive valuation that was inserted and then conflict-updated
\* with other values.
C23_Witness ==
    \E k \in Pairs :
        /\ Len(written[k]) >= 2
        /\ written[k][1].library_value # written[k][2].library_value
        /\ \E sn \in SnapshotsOf(k) :
              /\ sn.library_value + sn.inventory_value > 0
              /\ sn.total_value = 0
        /\ get_stats_total_value = {0}

\* C24: every session opened by parse_all_accounts eventually leaves
\* 'pending': with every fetch returning and every started run scheduled
\* fairly, a session row that is 'pending' is eventually 'success' or 'failed'.
C24_SessionLeavesPending ==
    \A s \in SessionIds :
        (\E r \in parse_sessions : r.id = s /\ r.status = "pending")
            ~> (\E r \in parse_sessions : r.id = s /\ r.status \in {"success", "failed"})

=============================================================================
